---- MODULE Spec2Model ----
(***************************************************************************)
(* Templateer: discovery of template modules, stub writing, and the       *)
(* render-and-write pipeline (generator.py, core.py, cli.py, main.py).    *)
(*                                                                         *)
(* Names (stems, class names, file names) are sequences of one-character  *)
(* strings; the class-name suffix "Template" and the extension ".py" are  *)
(* kept as single tokens.  A file is a sequence of lines, a line carries  *)
(* its indentation.  A template text is a small syntax tree.              *)
(***************************************************************************)
EXTENDS Integers, Sequences, FiniteSets, TLC

VARIABLES
    tpl,            \* .templateer/<stem>.py: stem -> template module
    order,          \* the order in which glob("*.py") lists .templateer
    models,         \* settings.model_dir/<stem>_model.py: stem -> stub text
    out,            \* settings.template_output_dir: file name -> text
    under_root,     \* whether model_dir and output dir lie under project_root
    pc,             \* "idle"; "render": cli.generate is past autogen_models;
                    \* "main_render": main.py --generate is past it;
                    \* "exited": the command has ended, its result is known
    cmd,            \* the command that is running, and how it ended
    visited,        \* template files the discovery loop reached, in order
    generated,      \* the list autogen_models built (stub paths, by stem)
    wrote,          \* stubs the discovery pass of this command created
    attempts,       \* generation loop: stub -> number of times it was tried
    failed,         \* generation loop: stubs that went to the except branch
    rendered_count, \* cli.generate's counter
    calls,          \* the TemplateModel.generate() calls of this command
    snap,           \* model_dir as the previous discovery pass, or a later
                    \* user edit of a stub, left it
    clean,          \* a discovery pass has ended and .templateer is as it was
    prev,           \* how the previous discovery pass was invoked
    repeat,         \* this command's discovery pass repeats the previous one
    runs,           \* number of commands and calls so far
    edits           \* number of edits the user has made

vars == <<tpl, order, models, out, under_root, pc, cmd, visited, generated,
          wrote, attempts, failed, rendered_count, calls, snap, clean, prev,
          repeat, runs, edits>>

(***************************************************************************)
(* Bounds of the model.                                                    *)
(***************************************************************************)
MaxRuns == 2
MaxEdits == 1

(***************************************************************************)
(* Character helpers: str.upper / str.lower on one token.                  *)
(***************************************************************************)
Upper(c) ==
    CASE c = "a" -> "A" [] c = "b" -> "B" [] c = "c" -> "C"
      [] c = "template" -> "TEMPLATE"
      [] OTHER -> c

Lower(c) ==
    CASE c = "A" -> "a" [] c = "B" -> "b" [] c = "C" -> "c"
      [] c = "Template" -> "template"
      [] OTHER -> c

IsLetter(c) == c \in {"a", "b", "c", "A", "B", "C"}

IsSep(c) == c \in {"_", "-"}

LowerAll(s) == [i \in 1..Len(s) |-> Lower(s[i])]

(* re.sub(r"[_\-]([a-zA-Z])", upper of group 1): a separator followed by a  *)
(* letter is dropped and the letter upper-cased; scanning left to right,    *)
(* matches do not overlap.                                                  *)
RECURSIVE CamelSub(_)
CamelSub(s) ==
    IF s = <<>> THEN <<>>
    ELSE IF Len(s) >= 2 /\ IsSep(s[1]) /\ IsLetter(s[2])
         THEN <<Upper(s[2])>> \o CamelSub(SubSeq(s, 3, Len(s)))
         ELSE <<s[1]>> \o CamelSub(Tail(s))

camelify(name) ==
    LET n == CamelSub(name)
    IN  IF n = <<>> THEN <<>> ELSE <<Upper(n[1])>> \o Tail(n)

(* str.removesuffix("Template") *)
RemoveSuffix(s) ==
    IF Len(s) >= 1 /\ s[Len(s)] = "Template" THEN SubSeq(s, 1, Len(s) - 1) ELSE s

(***************************************************************************)
(* Template texts.  A node is a literal, a variable reference {{ n }}, a   *)
(* conditional {% if n %}body{% endif %}, a loop {% for t in n %}body      *)
(* {% endfor %}, or a fragment that is not valid template grammar.         *)
(***************************************************************************)
Lit(s) == [k |-> "lit", n |-> s, t |-> "", body |-> <<>>]
Var(n) == [k |-> "var", n |-> n, t |-> "", body |-> <<>>]
IfN(c, b) == [k |-> "if", n |-> c, t |-> "", body |-> b]
ForN(t, it, b) == [k |-> "for", n |-> it, t |-> t, body |-> b]
BadN == [k |-> "bad", n |-> "", t |-> "", body |-> <<>>]

T_lit == <<Lit("hello world")>>
T_x == <<Lit("Hello "), Var("x")>>
T_xy == <<Var("y"), Var("x")>>
T_if == <<IfN("x", <<Var("y")>>)>>
T_for == <<ForN("t", "x", <<Var("t")>>)>>
T_bad == <<Lit("a"), BadN>>

(* jinja2 Environment.parse: raises TemplateSyntaxError on invalid grammar *)
RECURSIVE ParseOK(_)
ParseOK(nodes) ==
    \A i \in 1..Len(nodes) : nodes[i].k # "bad" /\ ParseOK(nodes[i].body)

(* jinja2.meta.find_undeclared_variables: every name that is looked up in  *)
(* the context, on any path, minus the names bound inside the template.    *)
RECURSIVE Undeclared(_, _)
Undeclared(nodes, bound) ==
    UNION { CASE nodes[i].k = "var" -> {nodes[i].n} \ bound
              [] nodes[i].k = "if" ->
                    ({nodes[i].n} \ bound) \cup Undeclared(nodes[i].body, bound)
              [] nodes[i].k = "for" ->
                    ({nodes[i].n} \ bound)
                        \cup Undeclared(nodes[i].body, bound \cup {nodes[i].t})
              [] OTHER -> {}
            : i \in 1..Len(nodes) }

(* ModelGenerator.extract_template_vars; "raise" stands for the exception  *)
(* that propagates out of it.                                               *)
extract_template_vars(template_str) ==
    IF ParseOK(template_str)
    THEN [raise |-> FALSE, vars |-> Undeclared(template_str, {})]
    ELSE [raise |-> TRUE, vars |-> {}]

(* Values: "None" is Python's None, any other token is a str.               *)
Truthy(v) == v # "None" /\ v # ""

(* Rendering under StrictUndefined: a name missing from the context raises  *)
(* as soon as it is printed, tested or iterated; None cannot be iterated; a *)
(* one-character str iterates once.                                         *)
RECURSIVE RenderNodes(_, _)
RenderNodes(nodes, ctx) ==
    IF nodes = <<>> THEN [ok |-> TRUE, text |-> <<>>]
    ELSE
      LET nd == nodes[1]
          here ==
            CASE nd.k = "lit" -> [ok |-> TRUE, text |-> <<nd.n>>]
              [] nd.k = "var" ->
                    IF nd.n \in DOMAIN ctx
                    THEN [ok |-> TRUE, text |-> <<ctx[nd.n]>>]
                    ELSE [ok |-> FALSE, text |-> <<>>]
              [] nd.k = "if" ->
                    IF nd.n \notin DOMAIN ctx THEN [ok |-> FALSE, text |-> <<>>]
                    ELSE IF Truthy(ctx[nd.n]) THEN RenderNodes(nd.body, ctx)
                    ELSE [ok |-> TRUE, text |-> <<>>]
              [] nd.k = "for" ->
                    IF nd.n \notin DOMAIN ctx \/ ctx[nd.n] = "None"
                    THEN [ok |-> FALSE, text |-> <<>>]
                    ELSE IF ctx[nd.n] = "" THEN [ok |-> TRUE, text |-> <<>>]
                    ELSE RenderNodes(nd.body,
                            [x \in DOMAIN ctx \cup {nd.t} |->
                                IF x = nd.t THEN ctx[nd.n] ELSE ctx[x]])
              [] OTHER -> [ok |-> FALSE, text |-> <<>>]
      IN  IF ~here.ok THEN [ok |-> FALSE, text |-> <<>>]
          ELSE LET rest == RenderNodes(Tail(nodes), ctx)
               IN  IF rest.ok THEN [ok |-> TRUE, text |-> here.text \o rest.text]
                   ELSE [ok |-> FALSE, text |-> <<>>]

(***************************************************************************)
(* Stub source text: the non-blank lines of a Python file, each with its   *)
(* indentation.                                                            *)
(***************************************************************************)
Line(i, k, n, a) == [ind |-> i, kind |-> k, name |-> n, arg |-> a]

(* the literal lines of the stub f-string, written at column `col`;        *)
(* field_lines is interpolated after `col` spaces                          *)
StubLiteral(col, class_name, stem, module_name, template_attr, field_lines) ==
    << Line(col, "import", <<>>, "__future__"),
       Line(col, "import", <<>>, "typing"),
       Line(col, "import", <<>>, "templateer"),
       Line(col, "class", class_name, "TemplateModel"),
       Line(col + 4, "doc", stem, ""),
       Line(col + 4, "template", module_name, template_attr) >>
    \o [i \in 1..Len(field_lines) |->
          IF i = 1
          THEN [field_lines[1] EXCEPT !.ind = col + field_lines[1].ind]
          ELSE field_lines[i]]

(* the variable names of the model, in lexicographic order *)
VarNames == <<"t", "x", "y", "z">>

Rank(v) == CHOOSE i \in 1..Len(VarNames) : VarNames[i] = v

(* sorted(vars_) *)
RECURSIVE Sorted(_)
Sorted(S) ==
    IF S = {} THEN <<>>
    ELSE LET m == CHOOSE x \in S : \A y \in S : Rank(x) <= Rank(y)
         IN  <<m>> \o Sorted(S \ {m})

(* "\n".join(f"    {v}: Any | None = None" for v in sorted(vars_))          *)
(*     or "    pass"                                                        *)
FieldLines(vars_) ==
    IF vars_ = {} THEN <<Line(4, "pass", <<>>, "")>>
    ELSE LET sv == Sorted(vars_)
         IN  [i \in 1..Len(sv) |-> Line(4, "field", <<sv[i]>>, "None")]

(* textwrap.dedent: strip the leading whitespace common to all lines       *)
Min(S) == CHOOSE m \in S : \A n \in S : m <= n

dedent(lines) ==
    IF lines = <<>> THEN lines
    ELSE LET margin == Min({lines[i].ind : i \in 1..Len(lines)})
         IN  [i \in 1..Len(lines) |-> [lines[i] EXCEPT !.ind = @ - margin]]

(* the stub text of ModelGenerator.write_model_stub (generator.py): the     *)
(* f-string literal is indented by 12 inside the method                     *)
GeneratorIndent == 12

StubText(stem, module_name, template_attr, vars_) ==
    dedent(StubLiteral(GeneratorIndent, camelify(stem) \o <<"Template">>, stem,
                       module_name, template_attr, FieldLines(vars_)))

(* the stub text of _write_model_stub (main.py): the literal starts at      *)
(* column 0                                                                 *)
MainStubText(stem, module_name, template_attr, vars_) ==
    dedent(StubLiteral(0, camelify(stem) \o <<"Template">>, stem,
                       module_name, template_attr, FieldLines(vars_)))

(***************************************************************************)
(* Loading a stub as a Python module.                                      *)
(***************************************************************************)
(* Python's block structure for the statements a stub holds: the first     *)
(* statement is at column 0; an indented line belongs to the class         *)
(* statement above it, and the lines of one class body share one           *)
(* indentation; a class statement needs a body.                            *)
IndentOK(lines) ==
    /\ lines # <<>> => lines[1].ind = 0
    /\ \A i \in 1..Len(lines) :
          /\ lines[i].ind > 0 =>
                /\ i > 1
                /\ \/ lines[i - 1].ind = lines[i].ind
                   \/ lines[i - 1].ind = 0 /\ lines[i - 1].kind = "class"
          /\ (lines[i].kind = "class" /\ lines[i].ind = 0) =>
                (i < Len(lines) /\ lines[i + 1].ind > 0)
          /\ lines[i].kind = "class" => lines[i].ind = 0

(* index of the last line of the class body that starts after line i *)
RECURSIVE BodyEnd(_, _)
BodyEnd(lines, i) ==
    IF i < Len(lines) /\ lines[i + 1].ind > 0 THEN BodyEnd(lines, i + 1) ELSE i

NoName == <<"?">>

(* the default of the last declaration of field v in a class body *)
FieldDefault(body, v) ==
    LET idx == {j \in 1..Len(body) : body[j].kind = "field" /\ body[j].name = <<v>>}
    IN  body[CHOOSE j \in idx : \A h \in idx : h <= j].arg

(* the class object a class statement at line i creates *)
ClassAt(lines, i) ==
    LET body == SubSeq(lines, i + 1, BodyEnd(lines, i))
        idx(k) == {j \in 1..Len(body) : body[j].kind = k}
        lastOf(k) == body[CHOOSE j \in idx(k) : \A h \in idx(k) : h <= j]
    IN  [ name |-> lines[i].name,
          base |-> lines[i].arg,
          hasTemplate |-> idx("template") # {},
          module |-> IF idx("template") # {} THEN lastOf("template").name ELSE NoName,
          attr |-> IF idx("template") # {} THEN lastOf("template").arg ELSE "",
          hasOutput |-> idx("output") # {},
          output |-> IF idx("output") # {} THEN lastOf("output").name ELSE <<>>,
          fields |-> [v \in {body[j].name[1] : j \in idx("field")} |->
                        FieldDefault(body, v)] ]

(* mod.__dict__.values() filtered as in the generation loop: the classes of *)
(* the module that subclass TemplateModel, in definition order              *)
RECURSIVE SelectSeq2(_, _)
SelectSeq2(lines, i) ==
    IF i > Len(lines) THEN <<>>
    ELSE IF lines[i].kind = "class" /\ lines[i].arg = "TemplateModel"
         THEN <<ClassAt(lines, i)>> \o SelectSeq2(lines, i + 1)
         ELSE SelectSeq2(lines, i + 1)

BindingClasses(lines) == SelectSeq2(lines, 1)

(* tmpl_cls(): pydantic rejects a field that has no default *)
InstantiateOK(cls) == \A v \in DOMAIN cls.fields : cls.fields[v] # "required"

(* instance.model_dump() *)
model_dump(cls) == cls.fields

(* a faulty variant of _output_path that never reads __output__ *)
output_path_ignores_override(cls) == LowerAll(RemoveSuffix(cls.name)) \o <<".py">>

(* TemplateModel._output_path: the file name under                          *)
(* settings.template_output_dir                                             *)
_output_path(cls) ==
    IF cls.hasOutput /\ cls.output # <<>>
    THEN cls.output
    ELSE LowerAll(RemoveSuffix(cls.name)) \o <<".py">>
(***************************************************************************)
(* The file system and the inputs of the model.                            *)
(***************************************************************************)
EmptyDir == [x \in {} |-> <<>>]

Put(dir, k, v) == [x \in DOMAIN dir \cup {k} |-> IF x = k THEN v ELSE dir[x]]

Stems == { <<"c">>, <<"a", "b">>, <<"a", "_", "b">> }

TemplateModule(b) == [load |-> "ok", hasT |-> TRUE, body |-> b]
NoTemplateModule == [load |-> "ok", hasT |-> FALSE, body |-> <<>>]
BrokenModule == [load |-> "raises", hasT |-> FALSE, body |-> <<>>]

(* the template modules a file .templateer/<stem>.py may hold *)
TemplateChoices(stem) ==
    CASE stem = <<"c">> -> {TemplateModule(T_lit), NoTemplateModule, TemplateModule(T_for)}
      [] stem = <<"a", "b">> -> {TemplateModule(T_x), TemplateModule(T_bad), BrokenModule}
      [] OTHER -> {TemplateModule(T_xy), TemplateModule(T_if)}

(* the template modules a fresh project holds *)
InitialChoices(stem) ==
    CASE stem = <<"c">> -> {TemplateModule(T_lit)}
      [] stem = <<"a", "b">> -> {TemplateModule(T_x), TemplateModule(T_bad)}
      [] OTHER -> {TemplateModule(T_xy), TemplateModule(T_if)}

(* all orders in which a directory listing may return the files S *)
RECURSIVE Orders(_)
Orders(S) ==
    IF S = {} THEN {<<>>}
    ELSE UNION { { <<x>> \o o : o \in Orders(S \ {x}) } : x \in S }

(***************************************************************************)
(* TemplateModel (core.py), on a class object loaded from a stub.          *)
(***************************************************************************)
(* _template_str: __import__(module) and getattr(mod, attr) *)
_template_str(cls) ==
    IF /\ cls.hasTemplate
       /\ cls.module \in DOMAIN tpl
       /\ tpl[cls.module].load = "ok"
       /\ cls.attr = "TEMPLATE"
       /\ tpl[cls.module].hasT
    THEN [raise |-> FALSE, body |-> tpl[cls.module].body]
    ELSE [raise |-> TRUE, body |-> <<>>]

(* render(): compile the template and render it with model_dump() *)
render(cls) ==
    LET t == _template_str(cls)
    IN  IF t.raise \/ ~ParseOK(t.body) THEN [raise |-> TRUE, text |-> <<>>]
        ELSE LET r == RenderNodes(t.body, model_dump(cls))
             IN  [raise |-> ~r.ok, text |-> r.text]

(* a faulty variant of generate that writes whatever render() produced,    *)
(* also when it raised                                                     *)
generate_writes_first(dir, cls, write) ==
    LET code == render(cls)
    IN  [ raise |-> code.raise,
          ret |-> code.text,
          path |-> _output_path(cls),
          out |-> IF write THEN Put(dir, _output_path(cls), code.text) ELSE dir ]

(* a faulty variant of generate that keeps an existing output file *)
generate_no_clobber(dir, cls, write) ==
    LET code == render(cls)
    IN  IF code.raise
        THEN [raise |-> TRUE, ret |-> <<>>, path |-> _output_path(cls), out |-> dir]
        ELSE [ raise |-> FALSE,
               ret |-> code.text,
               path |-> _output_path(cls),
               out |-> IF write /\ _output_path(cls) \notin DOMAIN dir
                       THEN Put(dir, _output_path(cls), code.text)
                       ELSE dir ]

(* generate(write) on the output directory dir: whether it raised, the     *)
(* text it returned, the path it computed, the directory afterwards        *)
generate(dir, cls, write) ==
    LET code == render(cls)
    IN  IF code.raise
        THEN [raise |-> TRUE, ret |-> <<>>, path |-> _output_path(cls), out |-> dir]
        ELSE [ raise |-> FALSE,
               ret |-> code.text,
               path |-> _output_path(cls),
               out |-> IF write THEN Put(dir, _output_path(cls), code.text) ELSE dir ]

(* the record of one generate() call *)
Call(stub, cls, write, before, g) ==
    [stub |-> stub, cls |-> cls, write |-> write, raise |-> g.raise,
     ret |-> g.ret, path |-> g.path, before |-> before, after |-> g.out]

(***************************************************************************)
(* write_model_stub (generator.py, impl "cli") and _write_model_stub       *)
(* (main.py, impl "main"): the model directory after the call.             *)
(***************************************************************************)
(* a faulty variant of write_model_stub without the exists() test *)
write_model_stub_overwrites(dir, impl, stem, template_attr, vars_) ==
    Put(dir, stem,
        IF impl = "main" THEN MainStubText(stem, stem, template_attr, vars_)
        ELSE StubText(stem, stem, template_attr, vars_))

write_model_stub(dir, impl, stem, template_attr, vars_) ==
    IF stem \in DOMAIN dir THEN dir
    ELSE Put(dir, stem,
             IF impl = "main" THEN MainStubText(stem, stem, template_attr, vars_)
             ELSE StubText(stem, stem, template_attr, vars_))

(***************************************************************************)
(* autogen_models: the loop over discover_template_modules().  st is what  *)
(* the loop has done so far; raised says an exception left the function.   *)
(***************************************************************************)
(* a faulty variant of the discovery loop that lists only the stubs it     *)
(* created                                                                 *)
RECURSIVE autogen_loop_lists_written(_, _, _, _)
autogen_loop_lists_written(files, impl, verbose, st) ==
    IF files = <<>> THEN st
    ELSE
      LET tpl_py == Head(files)
          mod == tpl[tpl_py]
          ex == extract_template_vars(mod.body)
          seen == [st EXCEPT !.visited = Append(@, tpl_py)]
      IN  IF mod.load = "raises"
          THEN [seen EXCEPT !.raised = TRUE]
          ELSE IF ~mod.hasT
          THEN autogen_loop_lists_written(Tail(files), impl, verbose, seen)
          ELSE IF ex.raise
          THEN [seen EXCEPT !.raised = TRUE]
          ELSE
            LET written ==
                  [seen EXCEPT !.models =
                      write_model_stub(@, impl, tpl_py, "TEMPLATE", ex.vars)]
            IN  IF verbose /\ ~under_root
                THEN [written EXCEPT !.raised = TRUE]
                ELSE autogen_loop_lists_written(Tail(files), impl, verbose,
                        IF tpl_py \in DOMAIN st.models THEN written
                        ELSE [written EXCEPT !.generated = Append(@, tpl_py)])

RECURSIVE autogen_loop(_, _, _, _)
autogen_loop(files, impl, verbose, st) ==
    IF files = <<>> THEN st
    ELSE
      LET tpl_py == Head(files)
          mod == tpl[tpl_py]
          ex == extract_template_vars(mod.body)
          seen == [st EXCEPT !.visited = Append(@, tpl_py)]
      IN  IF mod.load = "raises"
          THEN [seen EXCEPT !.raised = TRUE]          \* load_module() raises
          ELSE IF ~mod.hasT
          THEN autogen_loop(Tail(files), impl, verbose, seen)   \* continue
          ELSE IF ex.raise
          THEN [seen EXCEPT !.raised = TRUE]          \* TemplateSyntaxError
          ELSE
            LET written ==
                  [seen EXCEPT !.models =
                      write_model_stub(@, impl, tpl_py, "TEMPLATE", ex.vars)]
            IN  IF verbose /\ ~under_root
                THEN \* model_path.relative_to(project_root) raises ValueError
                     [written EXCEPT !.raised = TRUE]
                ELSE autogen_loop(Tail(files), impl, verbose,
                        [written EXCEPT !.generated = Append(@, tpl_py)])

autogen_models(impl, verbose) ==
    autogen_loop(order, impl, verbose,
                 [models |-> models, generated |-> <<>>, visited |-> <<>>,
                  raised |-> FALSE])

(***************************************************************************)
(* The loop of cli.generate over settings.model_dir.glob("*_model.py").    *)
(***************************************************************************)
(* the try block up to the generate() call: import the module, take the    *)
(* first TemplateModel subclass of its namespace, instantiate it           *)
TryStub(lines) ==
    IF ~IndentOK(lines)
    THEN [called |-> FALSE, cls |-> <<>>]     \* import raises
    ELSE IF BindingClasses(lines) = <<>>
    THEN [called |-> FALSE, cls |-> <<>>]     \* next() raises StopIteration
    ELSE IF ~InstantiateOK(BindingClasses(lines)[1])
    THEN [called |-> FALSE, cls |-> <<>>]     \* tmpl_cls() raises
    ELSE [called |-> TRUE, cls |-> <<BindingClasses(lines)[1]>>]

(* a faulty variant of the loop whose try block does not reach the next    *)
(* stub after a failure                                                    *)
RECURSIVE generate_loop_aborts(_, _, _)
generate_loop_aborts(stubs, verbose, st) ==
    IF stubs = <<>> THEN st
    ELSE
      LET stub == Head(stubs)
          t == TryStub(models[stub])
          tried == [st EXCEPT !.attempts[stub] = @ + 1]
      IN  IF ~t.called
          THEN [tried EXCEPT !.failed = @ \cup {stub}]
          ELSE
            LET g == generate(st.out, t.cls[1], TRUE)
                c == Call(stub, t.cls[1], TRUE, st.out, g)
                done == [tried EXCEPT !.out = g.out, !.calls = Append(@, c)]
            IN  IF g.raise
                THEN [done EXCEPT !.failed = @ \cup {stub}]
                ELSE generate_loop_aborts(Tail(stubs), verbose,
                        [done EXCEPT !.rendered_count = @ + 1])

RECURSIVE generate_loop(_, _, _)
generate_loop(stubs, verbose, st) ==
    IF stubs = <<>> THEN st
    ELSE
      LET stub == Head(stubs)
          t == TryStub(models[stub])
          tried == [st EXCEPT !.attempts[stub] = @ + 1]
      IN  IF ~t.called
          THEN generate_loop(Tail(stubs), verbose,
                             [tried EXCEPT !.failed = @ \cup {stub}])
          ELSE
            LET g == generate(st.out, t.cls[1], TRUE)
                c == Call(stub, t.cls[1], TRUE, st.out, g)
                done == [tried EXCEPT !.out = g.out, !.calls = Append(@, c)]
            IN  IF g.raise
                THEN generate_loop(Tail(stubs), verbose,
                                   [done EXCEPT !.failed = @ \cup {stub}])
                ELSE IF verbose /\ ~under_root
                THEN \* _output_path.relative_to(project_root) raises, after
                     \* the file was written and counted
                     generate_loop(Tail(stubs), verbose,
                        [done EXCEPT !.rendered_count = @ + 1,
                                     !.failed = @ \cup {stub}])
                ELSE generate_loop(Tail(stubs), verbose,
                        [done EXCEPT !.rendered_count = @ + 1])

(***************************************************************************)
(* The loop of main.py --generate over the model directory: the import and *)
(* next() are outside the try block, so an exception there ends the        *)
(* command; inside it, generate() returns the rendered text, and           *)
(* Path(text).relative_to(PROJECT_ROOT) raises for a text that is not a    *)
(* path under the project root, after the file was written.                *)
(***************************************************************************)
RECURSIVE main_generate_loop(_, _)
main_generate_loop(stubs, st) ==
    IF stubs = <<>> THEN st
    ELSE
      LET stub == Head(stubs)
          lines == models[stub]
          tried == [st EXCEPT !.attempts[stub] = @ + 1]
      IN  IF ~IndentOK(lines) \/ BindingClasses(lines) = <<>>
          THEN [tried EXCEPT !.raised = TRUE]      \* import / next() raises
          ELSE IF ~InstantiateOK(BindingClasses(lines)[1])
          THEN main_generate_loop(Tail(stubs),
                                  [tried EXCEPT !.failed = @ \cup {stub}])
          ELSE
            LET cls == BindingClasses(lines)[1]
                g == generate(st.out, cls, TRUE)
                c == Call(stub, cls, TRUE, st.out, g)
            IN  main_generate_loop(Tail(stubs),
                   [tried EXCEPT !.out = g.out, !.calls = Append(@, c),
                                 !.failed = @ \cup {stub}])

(***************************************************************************)
(* Edits a user makes to a stub between commands.                          *)
(***************************************************************************)
AddField(lines, v, dflt) == Append(lines, Line(4, "field", <<v>>, dflt))

RemoveLastLine(lines) == SubSeq(lines, 1, Len(lines) - 1)

SetOutput(lines, name) == Append(lines, Line(4, "output", name, ""))

AddClass(lines, stem) ==
    lines \o << Line(0, "class", <<"B", "Template">>, "TemplateModel"),
                Line(4, "template", stem, "TEMPLATE") >>

OnlyImports(lines) == SubSeq(lines, 1, 3)

UserEdits(stem, lines) ==
    { AddField(lines, "x", "v"),
      AddField(lines, "y", "required"),
      RemoveLastLine(lines),
      SetOutput(lines, <<>>),
      SetOutput(lines, <<"c", ".py">>),
      AddClass(lines, stem),
      OnlyImports(lines) }

(***************************************************************************)
(* State machine.                                                          *)
(***************************************************************************)
NoCmd == [name |-> "none", impl |-> "cli", verbose |-> FALSE, exit |-> "none"]

Init ==
    /\ tpl \in { f \in [Stems -> UNION {InitialChoices(st) : st \in Stems}] :
                    \A st \in Stems : f[st] \in InitialChoices(st) }
    /\ order \in Orders(Stems)
    /\ models = EmptyDir
    /\ out = EmptyDir
    /\ under_root \in BOOLEAN
    /\ pc = "idle"
    /\ cmd = NoCmd
    /\ visited = <<>>
    /\ generated = <<>>
    /\ wrote = {}
    /\ attempts = EmptyDir
    /\ failed = {}
    /\ rendered_count = 0
    /\ calls = <<>>
    /\ snap = EmptyDir
    /\ clean = FALSE
    /\ prev = <<>>
    /\ repeat = FALSE
    /\ runs = 0
    /\ edits = 0

mem_vars == <<cmd, visited, generated, wrote, attempts, failed, rendered_count,
              calls, repeat>>

(* a user replaces or removes a template module *)
EditTemplate ==
    /\ pc = "idle"
    /\ edits < MaxEdits
    /\ \E st \in DOMAIN tpl :
          \/ \E f \in TemplateChoices(st) \ {tpl[st]} :
                /\ tpl' = [tpl EXCEPT ![st] = f]
                /\ order' = order
          \/ /\ tpl' = [x \in DOMAIN tpl \ {st} |-> tpl[x]]
             /\ order' = SelectSeq(order, LAMBDA x : x # st)
    /\ clean' = FALSE
    /\ edits' = edits + 1
    /\ UNCHANGED <<models, out, under_root, pc, mem_vars, snap, prev, runs>>

(* a user edits a stub that exists *)
EditStub ==
    /\ pc = "idle"
    /\ edits < MaxEdits
    /\ \E st \in DOMAIN models :
          \E text \in UserEdits(st, models[st]) :
             /\ models' = [models EXCEPT ![st] = text]
             /\ snap' = IF clean THEN [models EXCEPT ![st] = text] ELSE snap
    /\ edits' = edits + 1
    /\ UNCHANGED <<tpl, order, out, under_root, pc, mem_vars, clean, prev, runs>>

(* what autogen_models(impl, verbose) leaves behind *)
Discovered(d, impl, verbose) ==
        /\ models' = d.models
        /\ visited' = d.visited
        /\ generated' = d.generated
        /\ wrote' = DOMAIN d.models \ DOMAIN models
        /\ repeat' = (clean /\ prev = <<impl, verbose>>)
        /\ prev' = <<impl, verbose>>
        /\ runs' = runs + 1
        /\ UNCHANGED <<tpl, order, out, under_root, attempts, failed,
                       rendered_count, calls, snap, clean, edits>>

(* cli.autogen (impl "cli") and main.py --autogen (impl "main", always     *)
(* verbose): autogen_models, then the count is printed                     *)
Autogen ==
    /\ pc = "idle"
    /\ runs < MaxRuns
    /\ \E impl \in {"cli", "main"}, verbose \in BOOLEAN :
          /\ impl = "main" => verbose
          /\ \E d \in {autogen_models(impl, verbose)} :
                /\ Discovered(d, impl, verbose)
                /\ cmd' = [name |-> "autogen", impl |-> impl, verbose |-> verbose,
                           exit |-> IF d.raised THEN "raised" ELSE "ok"]
    /\ pc' = "exited"

(* cli.generate up to the return of autogen_models *)
GenerateDiscover ==
    /\ pc = "idle"
    /\ runs < MaxRuns
    /\ \E verbose \in BOOLEAN :
       \E d \in {autogen_models("cli", verbose)} :
          /\ Discovered(d, "cli", verbose)
          /\ IF d.raised
             THEN /\ pc' = "exited"
                  /\ cmd' = [name |-> "generate", impl |-> "cli",
                             verbose |-> verbose, exit |-> "raised"]
             ELSE /\ pc' = "render"
                  /\ cmd' = [name |-> "generate", impl |-> "cli",
                             verbose |-> verbose, exit |-> "running"]

(* cli.generate from the glob of the model directory to the final count *)
GenerateRender ==
    /\ pc = "render"
    /\ \E listing \in Orders(DOMAIN models) :
          \E r \in { generate_loop(listing, cmd.verbose,
                        [out |-> out, attempts |-> [st \in DOMAIN models |-> 0],
                         failed |-> {}, rendered_count |-> 0, calls |-> <<>>]) } :
              /\ out' = r.out
              /\ attempts' = r.attempts
              /\ failed' = r.failed
              /\ rendered_count' = r.rendered_count
              /\ calls' = r.calls
    /\ pc' = "exited"
    /\ cmd' = [cmd EXCEPT !.exit = "ok"]
    /\ UNCHANGED <<tpl, order, models, under_root, visited, generated, wrote,
                   snap, clean, prev, repeat, runs, edits>>

(* main.py --generate up to the return of autogen_models(verbose=True) *)
MainGenerateDiscover ==
    /\ pc = "idle"
    /\ runs < MaxRuns
    /\ \E d \in {autogen_models("main", TRUE)} :
          /\ Discovered(d, "main", TRUE)
          /\ IF d.raised
             THEN /\ pc' = "exited"
                  /\ cmd' = [name |-> "main_generate", impl |-> "main",
                             verbose |-> TRUE, exit |-> "raised"]
             ELSE /\ pc' = "main_render"
                  /\ cmd' = [name |-> "main_generate", impl |-> "main",
                             verbose |-> TRUE, exit |-> "running"]

(* main.py --generate from the glob of the model directory to its end *)
MainGenerateRender ==
    /\ pc = "main_render"
    /\ \E listing \in Orders(DOMAIN models) :
          \E r \in { main_generate_loop(listing,
                        [out |-> out, attempts |-> [st \in DOMAIN models |-> 0],
                         failed |-> {}, calls |-> <<>>, raised |-> FALSE]) } :
              /\ out' = r.out
              /\ attempts' = r.attempts
              /\ failed' = r.failed
              /\ calls' = r.calls
              /\ cmd' = [cmd EXCEPT !.exit = IF r.raised THEN "raised" ELSE "ok"]
    /\ pc' = "exited"
    /\ UNCHANGED <<tpl, order, models, under_root, visited, generated, wrote,
                   rendered_count, snap, clean, prev, repeat, runs, edits>>

(* user code instantiates the binding class of a stub and calls            *)
(* generate(write)                                                         *)
CallGenerate ==
    /\ pc = "idle"
    /\ runs < MaxRuns
    /\ \E stub \in DOMAIN models, write \in BOOLEAN :
          LET t == TryStub(models[stub])
          IN  /\ t.called
              /\ LET g == generate(out, t.cls[1], write)
                 IN  /\ out' = g.out
                     /\ calls' = <<Call(stub, t.cls[1], write, out, g)>>
                     /\ cmd' = [name |-> "call", impl |-> "cli", verbose |-> FALSE,
                                exit |-> IF g.raise THEN "raised" ELSE "ok"]
    /\ pc' = "exited"
    /\ runs' = runs + 1
    /\ UNCHANGED <<tpl, order, models, under_root, visited, generated, wrote,
                   attempts, failed, rendered_count, snap, clean, prev, repeat,
                   edits>>

(* the process ends: what it held in memory is gone, the files stay *)
Exit ==
    /\ pc = "exited"
    /\ pc' = "idle"
    /\ cmd' = NoCmd
    /\ visited' = <<>>
    /\ generated' = <<>>
    /\ wrote' = {}
    /\ attempts' = EmptyDir
    /\ failed' = {}
    /\ rendered_count' = 0
    /\ calls' = <<>>
    /\ repeat' = FALSE
    /\ IF cmd.name \in {"autogen", "generate", "main_generate"}
       THEN snap' = models /\ clean' = TRUE
       ELSE UNCHANGED <<snap, clean>>
    /\ UNCHANGED <<tpl, order, models, out, under_root, prev, runs, edits>>

Next ==
    \/ EditTemplate
    \/ EditStub
    \/ Autogen
    \/ GenerateDiscover
    \/ GenerateRender
    \/ MainGenerateDiscover
    \/ MainGenerateRender
    \/ CallGenerate
    \/ Exit

Spec == Init /\ [][Next]_vars

(***************************************************************************)
(* Properties.                                                             *)
(***************************************************************************)
(* a step of a command or call, as opposed to an edit by the user *)
ProgramStep == pc # "idle" \/ pc' # "idle"

DiscoveryRan == pc \in {"render", "exited"} /\ cmd.name \in {"autogen", "generate"}

(* the stub text either writer produces for stem from template body b *)
FreshStubs(stem, b) ==
    { StubText(stem, stem, "TEMPLATE", extract_template_vars(b).vars),
      MainStubText(stem, stem, "TEMPLATE", extract_template_vars(b).vars) }

(* C1: once a stub file exists, no step of a discovery pass, a generation  *)
(* pass or a generate() call changes its contents or removes it, whatever  *)
(* the template now says and whatever the user put into the stub.          *)
C1_ExistingStubUntouched ==
    [][ProgramStep =>
          \A st \in DOMAIN models :
             st \in DOMAIN models' /\ models'[st] = models[st]]_vars

(* a discovery pass called write_model_stub for a stub that was already    *)
(* there and whose text is not what the pass would write now (the template *)
(* changed, or the user edited the stub)                                   *)
C1_Witness ==
    /\ DiscoveryRan
    /\ \E i \in 1..Len(generated) :
          /\ generated[i] \notin wrote
          /\ models[generated[i]] \notin FreshStubs(generated[i], tpl[generated[i]].body)

ValidTemplate(f) == f.load = "ok" /\ f.hasT /\ ParseOK(f.body)

(* C2: in a discovery pass over three template files of which the second   *)
(* has a syntactically invalid template and the first and third are valid, *)
(* the stubs of the first and the third exist when the pass has ended.     *)
C2_DiscoveryIsolatesFailure ==
    ( /\ DiscoveryRan
      /\ cmd.verbose => under_root
      /\ Len(order) = 3
      /\ ValidTemplate(tpl[order[1]])
      /\ tpl[order[2]].load = "ok" /\ tpl[order[2]].hasT /\ ~ParseOK(tpl[order[2]].body)
      /\ ValidTemplate(tpl[order[3]]) )
    => {order[1], order[3]} \subseteq DOMAIN models

(* the loop of cli.generate has run to its end *)
LoopDone == pc = "exited" /\ cmd.name = "generate" /\ cmd.exit = "ok"

(* the stub loads, its class instantiates and its template renders *)
Renders(st) ==
    /\ TryStub(models[st]).called
    /\ ~render(TryStub(models[st]).cls[1]).raise

CallsOf(st) == {i \in 1..Len(calls) : calls[i].stub = st}

(* C3: when the stub loop of cli.generate has ended, every stub file of    *)
(* the model directory was attempted exactly once, and every stub that     *)
(* loads, instantiates and renders had its output artifact written, no     *)
(* matter which other stubs failed.                                        *)
C3_EveryStubAttemptedOnce ==
    LoopDone =>
       /\ DOMAIN attempts = DOMAIN models
       /\ \A st \in DOMAIN models :
             /\ attempts[st] = 1
             /\ Cardinality(CallsOf(st)) <= 1
             /\ Renders(st) =>
                   /\ st \notin failed \/ (cmd.verbose /\ ~under_root)
                   /\ \E i \in CallsOf(st) :
                         /\ ~calls[i].raise
                         /\ calls[i].path \in DOMAIN calls[i].after
                         /\ calls[i].after[calls[i].path] = calls[i].ret
                         /\ calls[i].path \in DOMAIN out
       /\ rendered_count = Cardinality({st \in DOMAIN models : Renders(st)})

(* a stub failed in the loop and a stub called after it was rendered *)
C3_Witness ==
    /\ LoopDone
    /\ \E i, j \in 1..Len(calls) : i < j /\ calls[i].raise /\ ~calls[j].raise
    /\ \E st \in failed : CallsOf(st) = {}

(* C4: in the generation pass a stub module that declares zero, or more    *)
(* than one, TemplateModel subclass is failed: it goes to the except       *)
(* branch, no binding of it is instantiated and generate() is not called   *)
(* for it.                                                                 *)
C4_AmbiguousStubFails ==
    LoopDone =>
       \A st \in DOMAIN models :
          (IndentOK(models[st]) /\ Len(BindingClasses(models[st])) # 1) =>
             (st \in failed /\ CallsOf(st) = {})

(* C5: generate(write) raises exactly when render() fails, and then the    *)
(* output directory is as before; with write false the directory is as     *)
(* before and the rendered text is returned; the directory changes only    *)
(* when write is true and render() succeeded.                              *)
C5_GenerateWritesOnlyOnSuccess ==
    /\ \A i \in 1..Len(calls) :
          LET c == calls[i]
          IN  /\ c.raise = render(c.cls).raise
              /\ c.raise => c.after = c.before
              /\ ~c.write => c.after = c.before
              /\ ~c.raise => c.ret = render(c.cls).text
              /\ c.after # c.before => (c.write /\ ~c.raise)
    /\ (pc = "exited" /\ calls # <<>>) => out = calls[Len(calls)].after

(* render() failed in a generate(write=true) call whose output file was    *)
(* already there *)
C5_Witness ==
    \E i \in 1..Len(calls) :
       calls[i].raise /\ calls[i].write /\ calls[i].path \in DOMAIN calls[i].before

(* generate(write=false) returned a rendered text for a path that holds no *)
(* file *)
C5_WitnessNoWrite ==
    \E i \in 1..Len(calls) :
       /\ ~calls[i].raise /\ ~calls[i].write /\ calls[i].ret # <<>>
       /\ calls[i].path \notin DOMAIN out

(* C6: after a successful generate(write=true) the file at the output path *)
(* holds exactly the returned text, whatever it held before, and no other  *)
(* file of the output directory has changed.                               *)
C6_SuccessfulGenerateOverwrites ==
    \A i \in 1..Len(calls) :
       LET c == calls[i]
       IN  (c.write /\ ~c.raise) =>
              /\ DOMAIN c.after = DOMAIN c.before \cup {c.path}
              /\ c.after[c.path] = c.ret
              /\ \A f \in DOMAIN c.before \ {c.path} : c.after[f] = c.before[f]

(* a successful generate(write=true) replaced a file that held other text *)
C6_Witness ==
    \E i \in 1..Len(calls) :
       /\ calls[i].write /\ ~calls[i].raise
       /\ calls[i].path \in DOMAIN calls[i].before
       /\ calls[i].before[calls[i].path] # calls[i].ret

(* C7: a discovery pass that repeats the previous one (same command        *)
(* options, no template module changed in between) leaves the model        *)
(* directory as the previous pass left it, with the edits the user made to *)
(* stubs in between.                                                       *)
C7_DiscoveryIdempotent == (DiscoveryRan /\ repeat) => models = snap

IsMachineStub(st, lines) == \E f \in TemplateChoices(st) : lines \in FreshStubs(st, f.body)

(* a repeated pass ran over a stub the user had edited after the previous  *)
(* pass wrote it *)
C7_Witness ==
    /\ DiscoveryRan /\ repeat
    /\ \E i \in 1..Len(generated) : ~IsMachineStub(generated[i], models[generated[i]])

OverrideSet(cls) == cls.hasOutput /\ cls.output # <<>>

AllBindingClasses ==
    UNION { {BindingClasses(models[st])[i] : i \in 1..Len(BindingClasses(models[st]))}
            : st \in DOMAIN models }

(* C8: the output path of a binding is the override when __output__ is set *)
(* (a non-empty string, as core.py tests it) and otherwise the class name  *)
(* without its "Template" suffix, lower-cased, plus ".py"; it is the same  *)
(* for bindings that differ only in fields or template reference.          *)
C8_OutputPath ==
    /\ \A i \in 1..Len(calls) :
          calls[i].path =
             IF OverrideSet(calls[i].cls) THEN calls[i].cls.output
             ELSE LowerAll(RemoveSuffix(calls[i].cls.name)) \o <<".py">>
    /\ \A c \in AllBindingClasses :
          /\ _output_path(c) =
                IF OverrideSet(c) THEN c.output
                ELSE LowerAll(RemoveSuffix(c.name)) \o <<".py">>
          /\ _output_path([c EXCEPT !.fields = [v \in {} |-> ""], !.hasTemplate = FALSE,
                                    !.module = NoName, !.attr = ""]) = _output_path(c)

(* generate() wrote to the override path of a binding whose class name     *)
(* would have given another path *)
C8_Witness ==
    \E i \in 1..Len(calls) :
       /\ OverrideSet(calls[i].cls) /\ calls[i].write /\ ~calls[i].raise
       /\ calls[i].path # LowerAll(RemoveSuffix(calls[i].cls.name)) \o <<".py">>

FieldLinesOf(lines) == SelectSeq(lines, LAMBDA l : l.kind = "field")

(* C9: a stub the discovery pass has just written declares one class with  *)
(* exactly one field per extracted variable, its field lines are the       *)
(* variables in sorted order, it refers back to <module>.TEMPLATE, and     *)
(* with no variable its class body holds a pass statement.                 *)
C9_NewStubDeclaresVars ==
    DiscoveryRan =>
       \A st \in wrote :
          LET lines == models[st]
              vs == extract_template_vars(tpl[st].body).vars
          IN  /\ IndentOK(lines)
              /\ Len(BindingClasses(lines)) = 1
              /\ DOMAIN BindingClasses(lines)[1].fields = vs
              /\ [i \in 1..Len(FieldLinesOf(lines)) |-> FieldLinesOf(lines)[i].name[1]]
                    = Sorted(vs)
              /\ BindingClasses(lines)[1].module = st
              /\ BindingClasses(lines)[1].attr = "TEMPLATE"
              /\ vs = {} => \E i \in 1..Len(lines) : lines[i].kind = "pass" /\ lines[i].ind > 0

(* C10: whenever generate() of a binding succeeded, every variable the     *)
(* extractor returns for its template is a field of the binding.           *)
C10_ExtractedVarsAreFields ==
    \A i \in 1..Len(calls) :
       ~calls[i].raise =>
          extract_template_vars(_template_str(calls[i].cls).body).vars
             \subseteq DOMAIN model_dump(calls[i].cls)

(* a command that runs discovery and then the stub loop *)
GenerationPass == cmd.name \in {"generate", "main_generate"}

(* the discovery step of a generation pass leaves the output directory as  *)
(* it was                                                                  *)
DiscoveryWritesNoArtifact ==
    [][(pc = "idle" /\ pc' # "idle" /\ cmd'.name \in {"generate", "main_generate"})
          => out' = out]_vars

(* C11: in a generation pass (cli.generate, main.py --generate) no stub    *)
(* has been tried and generate() has not been called when discovery has    *)
(* finished, and when the pass has ended every stub its discovery step     *)
(* created was processed by the stub loop of that same invocation.         *)
C11_DiscoveryBeforeRendering ==
    /\ pc \in {"render", "main_render"} => (calls = <<>> /\ attempts = EmptyDir)
    /\ (pc = "exited" /\ GenerationPass) =>
          \A st \in wrote : st \in DOMAIN attempts /\ attempts[st] = 1

(* autogen_models has returned or raised, in any of the commands *)
AfterDiscovery ==
    /\ pc \in {"render", "main_render", "exited"}
    /\ cmd.name \in {"autogen", "generate", "main_generate"}

(* what the loops of testing.py and main.py _bootstrap need of a stub: it  *)
(* imports, next() finds its one binding class, the class instantiates     *)
(* with no argument, every extracted variable is a field of the instance,  *)
(* and generate() returns                                                  *)
Processable(st) ==
    /\ IndentOK(models[st])
    /\ Len(BindingClasses(models[st])) = 1
    /\ InstantiateOK(BindingClasses(models[st])[1])
    /\ extract_template_vars(tpl[st].body).vars
          \subseteq DOMAIN model_dump(BindingClasses(models[st])[1])
    /\ ~generate(out, BindingClasses(models[st])[1], TRUE).raise

(* C12: after a discovery pass every stub it wrote can be processed by the *)
(* generation step without error: one TemplateModel subclass, which        *)
(* instantiates with no argument and binds every extracted variable, so    *)
(* that generate() does not fail.                                          *)
C12_NewStubsProcessable == AfterDiscovery => \A st \in wrote : Processable(st)

(* autogen_models has returned its list *)
DiscoveryReturned ==
    \/ pc \in {"render", "main_render"}
    \/ pc = "exited" /\ cmd.name = "autogen" /\ cmd.exit = "ok"

HasTemplate(st) == tpl[st].hasT

(* C13: the discovery pass writes no stub for a template file without a    *)
(* TEMPLATE constant and goes on to the next file; the list it returns     *)
(* holds exactly one entry per file that has the constant, in the order of *)
(* the files, whether the stub was written now or existed already.         *)
C13_GeneratedListsTemplateFiles ==
    /\ AfterDiscovery =>
          /\ \A st \in wrote : HasTemplate(st)
          /\ \A i \in 1..Len(visited) :
                (tpl[visited[i]].load = "ok" /\ ~HasTemplate(visited[i]) /\ i < Len(order))
                   => Len(visited) > i
    /\ DiscoveryReturned =>
          /\ visited = order
          /\ generated = SelectSeq(order, HasTemplate)

(* the pass returned after it went past a file without TEMPLATE and past a *)
(* stub that existed already, which is in the list                         *)
C13_Witness ==
    /\ DiscoveryReturned
    /\ \E i \in 1..Len(order) : i < Len(order) /\ ~HasTemplate(order[i])
    /\ \E i \in 1..Len(generated) : generated[i] \notin wrote
    /\ wrote # {}

(* the state the stub loop of cli.generate starts from *)
LoopStart ==
    [out |-> out, attempts |-> [st \in DOMAIN models |-> 0], failed |-> {},
     rendered_count |-> 0, calls |-> <<>>]

(* two discovery passes left the same stubs and ended the same way *)
SameDiscovery(a, b) == a.models = b.models /\ a.raised = b.raised

(* two stub loops left the same artifacts and failed the same stubs *)
SameRendering(a, b) == a.out = b.out /\ a.failed = b.failed

(* C14: from the same files, discovery with and without verbose leaves the *)
(* same stubs and ends the same way, and the stub loop of cli.generate     *)
(* with and without verbose leaves the same output artifacts and fails the *)
(* same stubs.                                                             *)
C14_VerboseOnlyPrints ==
    /\ pc = "idle" =>
          SameDiscovery(autogen_models("cli", TRUE), autogen_models("cli", FALSE))
    /\ pc = "render" =>
          \A listing \in Orders(DOMAIN models) :
             SameRendering(generate_loop(listing, TRUE, LoopStart),
                           generate_loop(listing, FALSE, LoopStart))

(* the same statement for directories under the project root *)
VerboseOnlyPrintsUnderRoot == under_root => C14_VerboseOnlyPrints

(* settings.model_dir / f"{stem}_model.py" *)
StubPath(stem) == stem \o <<"_model.py">>

(* class_name = f"{self.camelify(stem)}Template" *)
GeneratedClassName(stem) == camelify(stem) \o <<"Template">>

(* a generate() call that wrote the artifact of the class the stub writer  *)
(* named, at its default path                                              *)
DefaultArtifactWritten(c) ==
    /\ c.write /\ ~c.raise
    /\ ~OverrideSet(c.cls)
    /\ c.cls.name = GeneratedClassName(c.stub)

(* C15: stubs of distinct stems have distinct stub paths, and within one   *)
(* command the default output paths of the generated classes of two        *)
(* distinct stems differ, so that no artifact written for one stub is      *)
(* overwritten by the artifact of another.                                 *)
C15_DistinctStemsNoCollision ==
    /\ \A s1, s2 \in DOMAIN tpl \cup DOMAIN models :
          s1 # s2 => StubPath(s1) # StubPath(s2)
    /\ \A i, j \in 1..Len(calls) :
          ( /\ i < j
            /\ calls[i].stub # calls[j].stub
            /\ DefaultArtifactWritten(calls[i])
            /\ DefaultArtifactWritten(calls[j]) )
          => calls[j].path # calls[i].path

====
